---- MODULE Spec2Model ----
(***************************************************************************)
(* The authorization subsystem of the We-Track MCP server:                 *)
(*   src/src/oauth.py        credential store, /authorize, /token, verify  *)
(*   src/src/auth.py         the authentication gateway                    *)
(*   src/src/server_http.py  the /mcp endpoint                             *)
(*   src/src/config/settings.py  the process-wide settings                 *)
(* Strings are Python strings; None is the value NoneVal.  Instants are    *)
(* integers (seconds); an ISO-8601 text of an instant t is [iso |-> t].    *)
(***************************************************************************)
EXTENDS Integers, Sequences, FiniteSets, TLC

\* ------------------------------------------------------------ bounds
MaxCodes == 2       \* authorization codes minted in one behaviour
MaxTokens == 2      \* access tokens minted in one behaviour
MaxInflight == 2    \* /token handlers suspended at one time
MaxTicks == 2       \* clock advances in one behaviour
MaxCrashes == 1     \* process crashes in one behaviour

\* ------------------------------------------------- program constants
CodeTTL == 600          \* timedelta(minutes=10), in seconds
TokenTTL == 86400       \* expires_in = 86400

NoneVal == "<None>"

\* Python truthiness of an Optional[str]: None and "" are falsy.
Falsy(x) == x = NoneVal \/ x = ""

\* A text of an instant that keeps the minute and drops the seconds
IsoFormatMinutes(t) == [iso |-> t - (t % 60)]

\* datetime.isoformat() and datetime.fromisoformat()
IsoFormat(t) == [iso |-> t]
FromIsoFormat(s) == s.iso

\* secrets.token_urlsafe(): the n-th fresh value of each generator
CodeNames == <<"a1", "a2", "a3", "a4">>
TokenNames == <<"t1", "t2", "t3", "t4">>
generate_authorization_code(n) == CodeNames[n]
generate_access_token(n) == TokenNames[n]

\* base64.urlsafe_b64encode(hashlib.sha256(v.encode()).digest()).decode().rstrip('=')
\* on the verifiers the model presents.
S256(v) ==
  CASE v = "v1" -> "O_wmlZTvZJIo6adLqwDwQu_JHVrMb77jGjgugNQjiP4"
    [] v = "v2" -> "-wTctpcOTD0Yc95R_VpQ17tGszgxE2AmZcNQ7EC1-ZA"
    [] v = "abc" -> "ungWv48Bz-pBQUDeXa4iI7ADYaOWF3qctBD_YfIAFa0"
    [] v = "ABC" -> "tdQEXD9Gb6kf4sxqvnkjKhpXzfEE96JucW4KHieJ33g"
    [] v = "O_wmlZTvZJIo6adLqwDwQu_JHVrMb77jGjgugNQjiP4"
         -> "jX-8TxLzJzVONgHIaHLpBGY_89PKTQOtyl40niyN2l8"
    [] OTHER -> "sha256:" \o v

\* ------------------------------------------------------------ settings
\* Settings: the fields the authorization subsystem reads.
Settings(oe, cid, cs, be, bt, mt) ==
  [oauth_enabled |-> oe, oauth_client_id |-> cid, oauth_client_secret |-> cs,
   bearer_token_enabled |-> be, bearer_token |-> bt, mcp_token |-> mt]

\* The deployments the model starts (and restarts) the process with.
Configs ==
  { Settings(TRUE, "c1", "s1", TRUE, "b1", "m1"),      \* OAuth, others configured too
    Settings(FALSE, "c1", "s1", TRUE, "b1", "m1"),     \* static bearer
    Settings(FALSE, NoneVal, NoneVal, TRUE, NoneVal, "m1"), \* static bearer, value unset
    Settings(FALSE, NoneVal, NoneVal, FALSE, "b1", "m1"),   \* shared secret
    Settings(FALSE, NoneVal, NoneVal, FALSE, NoneVal, NoneVal) } \* none

VARIABLES
  settings,     \* src/config/settings.py: settings, fixed while the process runs
  up,           \* whether the process is running
  now,          \* datetime.utcnow()
  codes,        \* oauth.py: _authorization_codes
  tokens,       \* oauth.py: _token_store
  disk,         \* the content of oauth_tokens.json
  fs,           \* what a write of oauth_tokens.json meets: "ok", or the error
                \* that open() ("denied") or write() ("full") raises
  pending,      \* connection -> whether a handle_token is suspended at
                \* `await request.form()`
  rival,        \* history: connection -> the codes exchanged by other handlers
                \* while this one was suspended
  nCodes,       \* values drawn from generate_authorization_code so far
  nTokens,      \* values drawn from generate_access_token so far
  ticks,        \* clock advances so far
  crashes,      \* crashes so far
  minted,       \* history: code -> the access tokens created from it
  last          \* history: the last operation, its input and its response

vars == <<settings, up, now, codes, tokens, disk, fs, pending, rival, nCodes,
          nTokens, ticks, crashes, minted, last>>

\* ------------------------------------------------------------ the store
EmptyMap == [k \in {} |-> NoneVal]

\* A dict that holds nothing but the entry just set
PutAlone(m, k, v) == [x \in {k} |-> v]

\* dict with key k set to v
Put(m, k, v) == [x \in DOMAIN m \cup {k} |-> IF x = k THEN v ELSE m[x]]

\* dict after `del m[k]`
DelNothing(m, k) == m

Del(m, k) == [x \in DOMAIN m \ {k} |-> m[x]]

NoFile == [exists |-> FALSE]

\* A file that open() or json.load() cannot turn into a dict: unreadable,
\* empty, cut short, or JSON that is not an object.
TextFile(s) == [exists |-> TRUE, text |-> s]

\* _save_storage: the data dumped from the two dicts, code timestamps as text
SaveCode(cd) ==
  [cd EXCEPT !.created_at = IsoFormat(@), !.expires_at = IsoFormat(@)]

Snapshot(cs, ts) ==
  [exists |-> TRUE,
   tokens |-> ts,
   codes |-> [c \in DOMAIN cs |-> SaveCode(cs[c])]]

\* _save_storage: open(_STORAGE_FILE, 'w') empties the file before json.dump
\* writes the data
TruncatedFile == TextFile("")

\* _save_storage that leaves the file as it is
SaveNothing(cs, ts) == disk

\* _save_storage: the file when it returns.  An exception is logged and
\* swallowed: one raised by open() leaves the file as it was, one raised while
\* json.dump writes leaves the file emptied by open().
SaveStorage(cs, ts) ==
  CASE fs = "ok" -> Snapshot(cs, ts)
    [] fs = "denied" -> disk
    [] fs = "full" -> TruncatedFile

\* _load_storage: whether open(), json.load() and the two data.get() return
JsonObject(d) == d.exists /\ "text" \notin DOMAIN d

\* A timestamp text that datetime.fromisoformat() accepts
IsIsoText(s) == "iso" \in DOMAIN s

\* _load_storage: whether the conversion of the codes' timestamps returns
\* (the files of the model hold timestamps as strings)
CodesConvert(d) ==
  \A c \in DOMAIN d.codes :
    IsIsoText(d.codes[c].created_at) /\ IsIsoText(d.codes[c].expires_at)

\* _load_storage: whether the try block completes without an exception
LoadCompletes(d) == JsonObject(d) /\ CodesConvert(d)

\* _load_storage: the two dicts read back, code timestamps as datetimes
LoadCode(cd) ==
  [cd EXCEPT !.created_at = FromIsoFormat(@), !.expires_at = FromIsoFormat(@)]

LoadCodes(d) ==
  IF d.exists /\ LoadCompletes(d)
  THEN [c \in DOMAIN d.codes |-> LoadCode(d.codes[c])]
  ELSE EmptyMap

LoadTokens(d) == IF d.exists /\ LoadCompletes(d) THEN d.tokens ELSE EmptyMap

\* ------------------------------------------------------------ errors
\* raise HTTPException(status_code, detail)
Error(st, d) == [status |-> st, detail |-> d]

\* The error kinds of the taxonomy, by the detail each raise carries.
Kind(d) ==
  CASE d = "OAuth2 is not enabled" -> "ConfigurationError"
    [] d \in {"client_id is required", "redirect_uri is required",
              "response_type must be 'code'", "code is required",
              "grant_type must be 'authorization_code'",
              "client_id and client_secret are required",
              "code_verifier is required for PKCE"} -> "MissingParameter"
    [] d = "Invalid client_id" -> "UnauthorizedClient"
    [] d = "Invalid client credentials" -> "InvalidClient"
    [] d \in {"Invalid or expired authorization code",
              "Authorization code expired"} -> "InvalidGrant"
    [] d = "redirect_uri mismatch" -> "RedirectMismatch"
    [] d = "client_id mismatch" -> "ClientMismatch"
    [] d = "Invalid code_verifier (PKCE verification failed)" -> "PkceVerificationFailed"
    [] d \in {"Unsupported code_challenge_method: S512"} -> "UnsupportedChallengeMethod"
    [] d \in {"Missing authorization header", "Missing OAuth token"} -> "MissingCredential"
    [] d = "Invalid or expired OAuth token" -> "InvalidOrExpiredToken"
    [] d = "Invalid authentication token" -> "InvalidToken"
    [] OTHER -> "None"

\* ------------------------------------------------------------ /authorize
\* The query strings presented to /authorize; NoneVal is an absent parameter.
PkceParams ==
  { <<NoneVal, NoneVal>>, <<"abc", NoneVal>>, <<"ABC", "plain">>,
    <<S256("v1"), "S256">>, <<"abc", "S512">> }

AuthReq(c, r, t, s, sc, p) ==
  [client_id |-> c, redirect_uri |-> r, response_type |-> t, state |-> s,
   scope |-> sc, code_challenge |-> p[1], code_challenge_method |-> p[2]]

\* Requests of the configured client: without PKCE, state and scope varied;
\* with each PKCE choice.
GoodAuthReqs ==
  { AuthReq("c1", "https://cb", "code", s, sc, <<NoneVal, NoneVal>>) :
    s \in {NoneVal, "xyz"}, sc \in {NoneVal, "read", ""} }
  \cup
  { AuthReq("c1", "https://cb", "code", NoneVal, NoneVal, p) : p \in PkceParams }

\* Requests that miss or get wrong one or more of the required parameters.
BadAuthReqs ==
  { AuthReq(c, r, t, NoneVal, NoneVal, <<NoneVal, NoneVal>>) :
    c \in {NoneVal, "", "c1", "c2"}, r \in {NoneVal, "https://cb"},
    t \in {"code", "token"} }
  \ GoodAuthReqs

AuthReqs == GoodAuthReqs \cup BadAuthReqs

\* The plain request: no state, default scope, no PKCE.
BasicAuthReqs ==
  { AuthReq("c1", "https://cb", "code", NoneVal, NoneVal, <<NoneVal, NoneVal>>) }

\* request.query_params.get(name, default)
GetDefault(v, default) == IF v = NoneVal THEN default ELSE v

\* The checks with the client compared before the parameters are validated
AuthorizeCheckClientFirst(q) ==
  IF ~settings.oauth_enabled THEN Error(400, "OAuth2 is not enabled")
  ELSE IF q.client_id # settings.oauth_client_id THEN Error(401, "Invalid client_id")
  ELSE IF Falsy(q.client_id) THEN Error(400, "client_id is required")
  ELSE IF Falsy(q.redirect_uri) THEN Error(400, "redirect_uri is required")
  ELSE IF q.response_type # "code" THEN Error(400, "response_type must be 'code'")
  ELSE Error(302, "ok")

\* handle_authorize, the checks: the detail of the first failing one, or "ok"
AuthorizeCheck(q) ==
  IF ~settings.oauth_enabled THEN Error(400, "OAuth2 is not enabled")
  ELSE IF Falsy(q.client_id) THEN Error(400, "client_id is required")
  ELSE IF Falsy(q.redirect_uri) THEN Error(400, "redirect_uri is required")
  ELSE IF q.response_type # "code" THEN Error(400, "response_type must be 'code'")
  ELSE IF q.client_id # settings.oauth_client_id THEN Error(401, "Invalid client_id")
  ELSE Error(302, "ok")

\* handle_authorize, auth_code_data: t1 and t2 are the two readings of utcnow()
AuthCodeData(q, t1, t2) ==
  LET base == [client_id |-> q.client_id,
               redirect_uri |-> q.redirect_uri,
               scope |-> GetDefault(q.scope, "mcp"),
               created_at |-> t1,
               expires_at |-> t2 + CodeTTL]
  IN IF Falsy(q.code_challenge) THEN base
     ELSE [client_id |-> base.client_id, redirect_uri |-> base.redirect_uri,
           scope |-> base.scope, created_at |-> base.created_at,
           expires_at |-> base.expires_at,
           code_challenge |-> q.code_challenge,
           code_challenge_method |-> GetDefault(q.code_challenge_method, "plain")]

\* handle_authorize, redirect_url
RedirectUrl(q, code) ==
  LET url == q.redirect_uri \o "?code=" \o code
  IN IF Falsy(q.state) THEN url ELSE url \o "&state=" \o q.state

\* The clock readings a handler takes while it runs: the second one dt later.
ClockSkews == {0, 1}

\* handle_authorize
HandleAuthorize(q, dt) ==
  LET chk == AuthorizeCheck(q)
      code == generate_authorization_code(nCodes + 1)
  IN /\ up
     /\ IF chk.detail = "ok"
        THEN /\ nCodes < MaxCodes
             /\ dt > 0 => ticks < MaxTicks
             /\ codes' = Put(codes, code, AuthCodeData(q, now, now + dt))
             /\ disk' = SaveStorage(codes', tokens)
             /\ nCodes' = nCodes + 1
             /\ now' = now + dt
             /\ ticks' = IF dt > 0 THEN ticks + 1 ELSE ticks
             /\ minted' = Put(minted, code, {})
             /\ last' = [op |-> "authorize", key |-> code, status |-> 302,
                         detail |-> "ok", out |-> RedirectUrl(q, code),
                         req |-> q]
        ELSE /\ dt = 0
             /\ last' = [op |-> "authorize", key |-> NoneVal, status |-> chk.status,
                         detail |-> chk.detail, out |-> NoneVal, req |-> q]
             /\ UNCHANGED <<codes, disk, nCodes, now, ticks, minted>>
     /\ UNCHANGED <<settings, fs, up, tokens, pending, rival, nTokens, crashes>>

\* _save_storage cut short: what the file holds when the process dies between
\* open(_STORAGE_FILE, 'w') and the end of json.dump: nothing yet, or a
\* beginning of the text
TornFiles == {TruncatedFile, TextFile("{ \"tokens\": {")}

\* The process dies inside the _save_storage call of a successful
\* handle_authorize.
HandleAuthorizeCrash(q, file) ==
  /\ up
  /\ AuthorizeCheck(q).detail = "ok"
  /\ nCodes < MaxCodes
  /\ crashes < MaxCrashes
  /\ fs = "ok"
  /\ disk' = file
  /\ nCodes' = nCodes + 1
  /\ minted' = Put(minted, generate_authorization_code(nCodes + 1), {})
  /\ up' = FALSE
  /\ crashes' = crashes + 1
  /\ codes' = EmptyMap
  /\ tokens' = EmptyMap
  /\ pending' = [c \in 1..MaxInflight |-> FALSE]
  /\ rival' = [c \in 1..MaxInflight |-> {}]
  /\ last' = [op |-> "crash", key |-> generate_authorization_code(nCodes + 1),
              status |-> 0, detail |-> "in _save_storage", out |-> NoneVal]
  /\ UNCHANGED <<settings, fs, now, nTokens, ticks>>

\* ------------------------------------------------------------ /token
Conns == 1..MaxInflight

\* The codes a client can present: those issued so far, and one never issued.
KnownCodes == {generate_authorization_code(n) : n \in 1..nCodes} \cup {"bogus"}

\* The form bodies presented to /token; NoneVal is an absent field.
TokenForm(g, c, r, ci, cs, v) ==
  [grant_type |-> g, code |-> c, redirect_uri |-> r, client_id |-> ci,
   client_secret |-> cs, code_verifier |-> v]

TokenForms ==
  { TokenForm("authorization_code", c, r, "c1", "s1", v) :
    c \in KnownCodes, r \in {NoneVal, "https://evil"},
    v \in {NoneVal, "v1", "abc", "ABC", S256("v1")} }
  \cup
  { TokenForm(g, c, NoneVal, "c1", cs, NoneVal) :
    g \in {"authorization_code", "refresh_token"}, c \in KnownCodes,
    cs \in {"s1", "bad"} }

\* The plain forms: the configured client, an issued code, nothing optional.
BasicTokenForms ==
  { TokenForm("authorization_code", c, NoneVal, "c1", "s1", NoneVal) :
    c \in KnownCodes }

\* A verify_client_credentials that accepts any secret when none is
\* configured
CredentialsOpenWhenUnset(client_id, client_secret) ==
  IF ~settings.oauth_enabled THEN FALSE
  ELSE IF Falsy(settings.oauth_client_secret)
       THEN client_id = settings.oauth_client_id
       ELSE client_id = settings.oauth_client_id
            /\ client_secret = settings.oauth_client_secret

\* verify_client_credentials
verify_client_credentials(client_id, client_secret) ==
  IF ~settings.oauth_enabled THEN FALSE
  ELSE IF ~Falsy(settings.oauth_client_id) /\ ~Falsy(settings.oauth_client_secret)
       THEN client_id = settings.oauth_client_id
            /\ client_secret = settings.oauth_client_secret
       ELSE FALSE

\* The PKCE block with the S256 branch comparing the verifier itself
PkceS256ComparesText(cd, f) ==
  IF Falsy(f.code_verifier) THEN Error(400, "code_verifier is required for PKCE")
  ELSE IF cd.code_challenge_method \in {"S256", "plain"}
       THEN IF f.code_verifier # cd.code_challenge
            THEN Error(400, "Invalid code_verifier (PKCE verification failed)")
            ELSE Error(200, "ok")
  ELSE Error(400, "Unsupported code_challenge_method: " \o cd.code_challenge_method)

\* The PKCE block with the plain branch accepting every verifier
PkcePlainAcceptsAny(cd, f) ==
  IF Falsy(f.code_verifier) THEN Error(400, "code_verifier is required for PKCE")
  ELSE IF cd.code_challenge_method = "S256"
       THEN IF S256(f.code_verifier) # cd.code_challenge
            THEN Error(400, "Invalid code_verifier (PKCE verification failed)")
            ELSE Error(200, "ok")
  ELSE IF cd.code_challenge_method = "plain" THEN Error(200, "ok")
  ELSE Error(400, "Unsupported code_challenge_method: " \o cd.code_challenge_method)

\* The PKCE block with every method other than S256 compared as plain
PkceUnknownMethodAsPlain(cd, f) ==
  IF Falsy(f.code_verifier) THEN Error(400, "code_verifier is required for PKCE")
  ELSE IF cd.code_challenge_method = "S256"
       THEN IF S256(f.code_verifier) # cd.code_challenge
            THEN Error(400, "Invalid code_verifier (PKCE verification failed)")
            ELSE Error(200, "ok")
  ELSE IF f.code_verifier # cd.code_challenge
       THEN Error(400, "Invalid code_verifier (PKCE verification failed)")
  ELSE Error(200, "ok")

\* The PKCE block skipped when the form has no verifier
PkceVerifierOptional(cd, f) ==
  IF Falsy(f.code_verifier) THEN Error(200, "ok")
  ELSE IF cd.code_challenge_method = "S256"
       THEN IF S256(f.code_verifier) # cd.code_challenge
            THEN Error(400, "Invalid code_verifier (PKCE verification failed)")
            ELSE Error(200, "ok")
  ELSE IF cd.code_challenge_method = "plain"
       THEN IF f.code_verifier # cd.code_challenge
            THEN Error(400, "Invalid code_verifier (PKCE verification failed)")
            ELSE Error(200, "ok")
  ELSE Error(400, "Unsupported code_challenge_method: " \o cd.code_challenge_method)

\* handle_token, the PKCE block, for a stored code that carries a challenge
PkceCheck(cd, f) ==
  IF Falsy(f.code_verifier) THEN Error(400, "code_verifier is required for PKCE")
  ELSE IF cd.code_challenge_method = "S256"
       THEN IF S256(f.code_verifier) # cd.code_challenge
            THEN Error(400, "Invalid code_verifier (PKCE verification failed)")
            ELSE Error(200, "ok")
  ELSE IF cd.code_challenge_method = "plain"
       THEN IF f.code_verifier # cd.code_challenge
            THEN Error(400, "Invalid code_verifier (PKCE verification failed)")
            ELSE Error(200, "ok")
  ELSE Error(400, "Unsupported code_challenge_method: " \o cd.code_challenge_method)

\* handle_token, the expiry test of a stored code
CodeNeverExpires(cd) == FALSE

CodeExpired(cd) == now > cd.expires_at

\* The checks with the code looked up before the client is authenticated
TokenCheckCodeFirst(f) ==
  IF ~settings.oauth_enabled THEN Error(400, "OAuth2 is not enabled")
  ELSE IF f.grant_type # "authorization_code"
       THEN Error(400, "grant_type must be 'authorization_code'")
  ELSE IF Falsy(f.code) THEN Error(400, "code is required")
  ELSE IF Falsy(f.client_id) \/ Falsy(f.client_secret)
       THEN Error(400, "client_id and client_secret are required")
  ELSE IF f.code \notin DOMAIN codes
       THEN Error(400, "Invalid or expired authorization code")
  ELSE IF ~verify_client_credentials(f.client_id, f.client_secret)
       THEN Error(401, "Invalid client credentials")
  ELSE IF CodeExpired(codes[f.code])
       THEN Error(400, "Authorization code expired")
  ELSE IF ~Falsy(f.redirect_uri) /\ f.redirect_uri # codes[f.code].redirect_uri
       THEN Error(400, "redirect_uri mismatch")
  ELSE IF f.client_id # codes[f.code].client_id
       THEN Error(400, "client_id mismatch")
  ELSE IF "code_challenge" \in DOMAIN codes[f.code]
       THEN PkceCheck(codes[f.code], f)
  ELSE Error(200, "ok")

\* handle_token, the checks in their order: the first failing one, or "ok"
TokenCheck(f) ==
  IF ~settings.oauth_enabled THEN Error(400, "OAuth2 is not enabled")
  ELSE IF f.grant_type # "authorization_code"
       THEN Error(400, "grant_type must be 'authorization_code'")
  ELSE IF Falsy(f.code) THEN Error(400, "code is required")
  ELSE IF Falsy(f.client_id) \/ Falsy(f.client_secret)
       THEN Error(400, "client_id and client_secret are required")
  ELSE IF ~verify_client_credentials(f.client_id, f.client_secret)
       THEN Error(401, "Invalid client credentials")
  ELSE IF f.code \notin DOMAIN codes
       THEN Error(400, "Invalid or expired authorization code")
  ELSE IF CodeExpired(codes[f.code])
       THEN Error(400, "Authorization code expired")
  ELSE IF ~Falsy(f.redirect_uri) /\ f.redirect_uri # codes[f.code].redirect_uri
       THEN Error(400, "redirect_uri mismatch")
  ELSE IF f.client_id # codes[f.code].client_id
       THEN Error(400, "client_id mismatch")
  ELSE IF "code_challenge" \in DOMAIN codes[f.code]
       THEN PkceCheck(codes[f.code], f)
  ELSE Error(200, "ok")

\* create_access_token, token_data: t1 and t2 are the two readings of utcnow()
TokenData(access_token, client_id, scope, t1, t2) ==
  [access_token |-> access_token,
   token_type |-> "Bearer",
   expires_in |-> TokenTTL,
   scope |-> IF Falsy(scope) THEN "mcp" ELSE scope,
   client_id |-> client_id,
   created_at |-> IsoFormat(t1),
   expires_at |-> IsoFormat(t2 + TokenTTL)]

\* handle_token up to `await request.form()`: a request arrives on a
\* connection and the handler suspends until the form body has been read.
TokenRecv(i) ==
  /\ up
  /\ ~pending[i]
  /\ pending' = [pending EXCEPT ![i] = TRUE]
  /\ rival' = [rival EXCEPT ![i] = {}]
  /\ last' = [op |-> "recv", key |-> NoneVal, status |-> 0, detail |-> "",
              out |-> NoneVal]
  /\ UNCHANGED <<settings, fs, up, now, codes, tokens, disk, nCodes, nTokens,
                 ticks, crashes, minted>>

\* The code removed by a successful exchange: `del _authorization_codes[code]`
UsedCodeKept(code) == codes

UsedCodeRemoved(code) == Del(codes, code)

\* handle_token: whether the rejection it raises follows a deletion of the
\* presented code
RejectDeletesCodeOnPkce(chk) ==
  chk.detail \in {"Authorization code expired",
                  "Invalid code_verifier (PKCE verification failed)"}

RejectDeletesCode(chk) == chk.detail = "Authorization code expired"

\* handle_token from the form on: no await follows, so it runs to its return
\* without another handler in between.
HandleToken(i, f, dt) ==
  LET chk == TokenCheck(f)
      tok == generate_access_token(nTokens + 1)
      td == TokenData(tok, f.client_id, codes[f.code].scope, now, now + dt)
      bound == IF f.code \in DOMAIN codes THEN codes[f.code] ELSE NoneVal
  IN /\ up
     /\ pending[i]
     /\ pending' = [pending EXCEPT ![i] = FALSE]
     /\ IF chk.detail = "ok"
        THEN /\ nTokens < MaxTokens
             /\ rival' = [c \in Conns |->
                            IF c # i /\ pending[c] THEN rival[c] \cup {f.code}
                            ELSE rival[c]]
             /\ dt > 0 => ticks < MaxTicks
             /\ tokens' = Put(tokens, tok, td)
             /\ codes' = UsedCodeRemoved(f.code)
             /\ disk' = SaveStorage(codes', tokens')
             /\ nTokens' = nTokens + 1
             /\ now' = now + dt
             /\ ticks' = IF dt > 0 THEN ticks + 1 ELSE ticks
             /\ minted' = [minted EXCEPT ![f.code] = @ \cup {tok}]
             /\ last' = [op |-> "token", key |-> f.code, status |-> 200,
                         detail |-> "ok", out |-> td,
                         raced |-> f.code \in rival[i],
                         form |-> f, bound |-> bound]
        ELSE /\ dt = 0
             /\ IF RejectDeletesCode(chk)
                THEN /\ codes' = Del(codes, f.code)
                     /\ disk' = SaveStorage(codes', tokens)
                ELSE UNCHANGED <<codes, disk>>
             /\ last' = [op |-> "token", key |-> f.code, status |-> chk.status,
                         detail |-> chk.detail, out |-> NoneVal,
                         raced |-> f.code \in rival[i],
                         form |-> f, bound |-> bound]
             /\ UNCHANGED <<tokens, nTokens, now, ticks, minted, rival>>
     /\ UNCHANGED <<settings, fs, up, nCodes, crashes>>

\* The process dies inside a successful handle_token after create_access_token
\* has saved the store and before the removal of the code is saved.
HandleTokenCrash(i, f) ==
  LET tok == generate_access_token(nTokens + 1)
      td == TokenData(tok, f.client_id, codes[f.code].scope, now, now)
  IN /\ up
     /\ pending[i]
     /\ TokenCheck(f).detail = "ok"
     /\ nTokens < MaxTokens
     /\ crashes < MaxCrashes
     /\ disk' = SaveStorage(codes, Put(tokens, tok, td))
     /\ nTokens' = nTokens + 1
     /\ minted' = [minted EXCEPT ![f.code] = @ \cup {tok}]
     /\ up' = FALSE
     /\ crashes' = crashes + 1
     /\ codes' = EmptyMap
     /\ tokens' = EmptyMap
     /\ pending' = [c \in Conns |-> FALSE]
     /\ rival' = [c \in Conns |-> {}]
     /\ last' = [op |-> "crash", key |-> f.code, status |-> 0,
                 detail |-> "in handle_token", out |-> NoneVal]
     /\ UNCHANGED <<settings, fs, now, nCodes, ticks>>

\* ------------------------------------------------------------ verification
\* The bearer credentials a request can carry: none (no Authorization header),
\* the configured static values, a value configured nowhere, issued tokens.
Creds ==
  {NoneVal, "b1", "m1", "zz"} \cup {generate_access_token(n) : n \in 1..nTokens}

\* verify_access_token: the expiry test of a stored token
TokenExpiredAtExpiry(token) == now >= FromIsoFormat(tokens[token].expires_at)

TokenExpired(token) == now > FromIsoFormat(tokens[token].expires_at)

\* verify_access_token: whether it returns token_data (and not None)
VerifyReturnsRecord(token) == token \in DOMAIN tokens /\ ~TokenExpired(token)

\* A verification that sweeps every expired token out of the store
TokensAfterSweep(token) ==
  IF token \in DOMAIN tokens /\ TokenExpired(token)
  THEN [t \in {x \in DOMAIN tokens : ~TokenExpired(x)} |-> tokens[t]]
  ELSE tokens

\* verify_access_token: _token_store when it returns
TokensAfterVerify(token) ==
  IF token \in DOMAIN tokens /\ TokenExpired(token) THEN Del(tokens, token)
  ELSE tokens

\* verify_access_token: the file when it returns
DiskNotSaved(token) == disk

DiskAfterVerify(token) ==
  IF token \in DOMAIN tokens /\ TokenExpired(token)
  THEN SaveStorage(codes, TokensAfterVerify(token))
  ELSE disk

\* verify_access_token, called on its own
VerifyAccessToken(token) ==
  /\ up
  /\ tokens' = TokensAfterVerify(token)
  /\ disk' = DiskAfterVerify(token)
  /\ last' = IF VerifyReturnsRecord(token)
             THEN [op |-> "verify", key |-> token, status |-> 200,
                   detail |-> "record", out |-> tokens[token]]
             ELSE [op |-> "verify", key |-> token, status |-> 0,
                   detail |-> "None", out |-> NoneVal]
  /\ UNCHANGED <<settings, fs, up, now, codes, pending, rival, nCodes, nTokens,
                 ticks,
                 crashes, minted>>

\* verify_oauth_token: True (status 200) or the HTTPException raised
OauthTokenResultNoFlag(token) ==
  IF Falsy(token) THEN Error(401, "Missing OAuth token")
  ELSE IF ~VerifyReturnsRecord(token) THEN Error(401, "Invalid or expired OAuth token")
  ELSE Error(200, "ok")

OauthTokenResult(token) ==
  IF ~settings.oauth_enabled THEN Error(200, "ok")
  ELSE IF Falsy(token) THEN Error(401, "Missing OAuth token")
  ELSE IF ~VerifyReturnsRecord(token) THEN Error(401, "Invalid or expired OAuth token")
  ELSE Error(200, "ok")

\* verify_oauth_token: whether it calls verify_access_token
OauthTokenReadsStore(token) == settings.oauth_enabled /\ ~Falsy(token)

\* A verify_bearer_token that compares before it tests for a missing
\* credential
BearerTokenCompareFirst(cred) ==
  IF ~settings.bearer_token_enabled THEN Error(200, "ok")
  ELSE IF cred # settings.bearer_token THEN Error(401, "Invalid authentication token")
  ELSE Error(200, "ok")

\* verify_bearer_token: True (status 200) or the HTTPException raised
BearerTokenResult(cred) ==
  IF ~settings.bearer_token_enabled THEN Error(200, "ok")
  ELSE IF cred = NoneVal THEN Error(401, "Missing authorization header")
  ELSE IF cred # settings.bearer_token THEN Error(401, "Invalid authentication token")
  ELSE Error(200, "ok")

\* verify_authentication: True (status 200) or the HTTPException raised
AuthenticationResultBearerFirst(cred) ==
  IF ~settings.bearer_token_enabled /\ ~settings.oauth_enabled
     /\ Falsy(settings.mcp_token)
  THEN Error(200, "ok")
  ELSE IF settings.bearer_token_enabled THEN BearerTokenResult(cred)
  ELSE IF settings.oauth_enabled
       THEN IF cred # NoneVal THEN OauthTokenResult(cred)
            ELSE Error(401, "Missing authorization header")
  ELSE IF cred = NoneVal THEN Error(401, "Missing authorization header")
  ELSE IF cred # settings.mcp_token THEN Error(401, "Invalid authentication token")
  ELSE Error(200, "ok")

AuthenticationResultNoOptOut(cred) ==
  IF settings.oauth_enabled
  THEN IF cred # NoneVal THEN OauthTokenResult(cred)
       ELSE Error(401, "Missing authorization header")
  ELSE IF settings.bearer_token_enabled THEN BearerTokenResult(cred)
  ELSE IF cred = NoneVal THEN Error(401, "Missing authorization header")
  ELSE IF cred # settings.mcp_token THEN Error(401, "Invalid authentication token")
  ELSE Error(200, "ok")

AuthenticationResult(cred) ==
  IF ~settings.bearer_token_enabled /\ ~settings.oauth_enabled
     /\ Falsy(settings.mcp_token)
  THEN Error(200, "ok")
  ELSE IF settings.oauth_enabled
       THEN IF cred # NoneVal THEN OauthTokenResult(cred)
            ELSE Error(401, "Missing authorization header")
  ELSE IF settings.bearer_token_enabled THEN BearerTokenResult(cred)
  ELSE IF ~Falsy(settings.mcp_token)
       THEN IF cred = NoneVal THEN Error(401, "Missing authorization header")
            ELSE IF cred # settings.mcp_token
                 THEN Error(401, "Invalid authentication token")
            ELSE Error(200, "ok")
  ELSE Error(200, "ok")

\* verify_authentication: whether it reaches verify_access_token
AuthenticationReadsStore(cred) ==
  settings.oauth_enabled /\ cred # NoneVal /\ OauthTokenReadsStore(cred)

\* verify_oauth_token, called on its own
VerifyOauthToken(token) ==
  LET r == OauthTokenResult(token)
  IN /\ up
     /\ IF OauthTokenReadsStore(token)
        THEN tokens' = TokensAfterVerify(token) /\ disk' = DiskAfterVerify(token)
        ELSE UNCHANGED <<tokens, disk>>
     /\ last' = [op |-> "oauth_token", key |-> token, status |-> r.status,
                 detail |-> r.detail, out |-> NoneVal]
     /\ UNCHANGED <<settings, fs, up, now, codes, pending, rival, nCodes, nTokens,
                 ticks,
                    crashes, minted>>

\* verify_authentication: the gateway
VerifyAuthentication(cred) ==
  LET r == AuthenticationResult(cred)
  IN /\ up
     /\ IF AuthenticationReadsStore(cred)
        THEN tokens' = TokensAfterVerify(cred) /\ disk' = DiskAfterVerify(cred)
        ELSE UNCHANGED <<tokens, disk>>
     /\ last' = [op |-> "authenticate", key |-> cred, status |-> r.status,
                 detail |-> r.detail, out |-> NoneVal]
     /\ UNCHANGED <<settings, fs, up, now, codes, pending, rival, nCodes, nTokens,
                 ticks,
                    crashes, minted>>

\* ------------------------------------------------------------ /mcp
McpMethods == {"initialize", "tools/list", "tools/call"}

\* mcp_endpoint: how often it calls verify_authentication before the method
\* is dispatched (the call is commented out)
McpGatewayCalls == 0

\* mcp_endpoint: whether the method runs list_tools or call_tool
RunsTool(method) == method \in {"tools/list", "tools/call"}

\* mcp_endpoint
McpEndpoint(cred, method) ==
  /\ up
  /\ last' = [op |-> "mcp", key |-> cred, status |-> 200, detail |-> method,
              out |-> [gateway_calls |-> McpGatewayCalls,
                       executed |-> RunsTool(method)]]
  /\ UNCHANGED <<settings, fs, up, now, codes, tokens, disk, pending, rival,
                 nCodes, nTokens, ticks, crashes, minted>>

\* ------------------------------------------------------------ environment
\* The amounts by which the clock is seen to advance between operations: up
\* to and past the expiry of a code, up to and past the expiry of a token.
CodeClockSteps == {1, CodeTTL}
TokenClockSteps == {1, TokenTTL}

Tick(d) ==
  /\ ticks < MaxTicks
  /\ now' = now + d
  /\ ticks' = ticks + 1
  /\ last' = [op |-> "tick", key |-> NoneVal, status |-> 0, detail |-> "",
              out |-> NoneVal]
  /\ UNCHANGED <<settings, fs, up, codes, tokens, disk, pending, rival, nCodes,
                 nTokens, crashes, minted>>

\* Writes of oauth_tokens.json start to fail: open() raises (the file or its
\* directory is not writable) or write() raises (the device is full).
WriteErrors == {"denied", "full"}

DiskFails(e) ==
  /\ fs = "ok"
  /\ fs' = e
  /\ last' = [op |-> "fs", key |-> NoneVal, status |-> 0, detail |-> e,
              out |-> NoneVal]
  /\ UNCHANGED <<settings, up, now, codes, tokens, disk, pending, rival, nCodes,
                 nTokens, ticks, crashes, minted>>

\* Writes of oauth_tokens.json succeed again.
DiskRecovers ==
  /\ fs # "ok"
  /\ fs' = "ok"
  /\ last' = [op |-> "fs", key |-> NoneVal, status |-> 0, detail |-> "ok",
              out |-> NoneVal]
  /\ UNCHANGED <<settings, up, now, codes, tokens, disk, pending, rival, nCodes,
                 nTokens, ticks, crashes, minted>>

\* The process stops between two handlers: memory and connections are lost.
Crash ==
  /\ up
  /\ crashes < MaxCrashes
  /\ up' = FALSE
  /\ crashes' = crashes + 1
  /\ codes' = EmptyMap
  /\ tokens' = EmptyMap
  /\ pending' = [c \in Conns |-> FALSE]
  /\ rival' = [c \in Conns |-> {}]
  /\ last' = [op |-> "crash", key |-> NoneVal, status |-> 0,
              detail |-> "between handlers", out |-> NoneVal]
  /\ UNCHANGED <<settings, fs, now, disk, nCodes, nTokens, ticks, minted>>

\* The process starts: the settings are read and the module import calls
\* _load_storage.
Restart(cfg) ==
  /\ ~up
  /\ up' = TRUE
  /\ settings' = cfg
  /\ codes' = LoadCodes(disk)
  /\ tokens' = LoadTokens(disk)
  /\ last' = [op |-> "start", key |-> NoneVal, status |-> 0, detail |-> "",
              out |-> NoneVal]
  /\ UNCHANGED <<now, disk, fs, pending, rival, nCodes, nTokens, ticks,
                 crashes, minted>>

\* ------------------------------------------------------------ the system
Init ==
  /\ settings \in Configs
  /\ up = TRUE
  /\ now = 0
  /\ disk = NoFile
  /\ fs = "ok"
  /\ codes = LoadCodes(disk)
  /\ tokens = LoadTokens(disk)
  /\ pending = [c \in Conns |-> FALSE]
  /\ rival = [c \in Conns |-> {}]
  /\ nCodes = 0
  /\ nTokens = 0
  /\ ticks = 0
  /\ crashes = 0
  /\ minted = EmptyMap
  /\ last = [op |-> "start", key |-> NoneVal, status |-> 0, detail |-> "",
             out |-> NoneVal]

\* The authorization-code flow: /authorize and /token requests of every shape,
\* served one after the other, the clock passing the codes' expiry.
Next ==
  \/ \E q \in AuthReqs : HandleAuthorize(q, 0)
  \/ TokenRecv(1)
  \/ \E f \in TokenForms : HandleToken(1, f, 0)
  \/ \E d \in CodeClockSteps : Tick(d)

Spec == Init /\ [][Next]_vars

\* The flow with the clock advancing between the two utcnow() readings that a
\* handler takes while it builds a record.
NextClock ==
  \/ \E q \in BasicAuthReqs, dt \in ClockSkews : HandleAuthorize(q, dt)
  \/ TokenRecv(1)
  \/ \E f \in BasicTokenForms, dt \in ClockSkews : HandleToken(1, f, dt)
  \/ \E t \in Creds \ {NoneVal} : VerifyAccessToken(t)
  \/ \E d \in CodeClockSteps \cup TokenClockSteps : Tick(d)

SpecClock == Init /\ [][NextClock]_vars

\* Every combination of the fields of a /token form, and the /authorize
\* requests of two clients, with and without PKCE.
OrderTokenForms ==
  { TokenForm(g, c, r, ci, cs, v) :
    g \in {"authorization_code", "refresh_token"},
    c \in KnownCodes \cup {NoneVal},
    r \in {NoneVal, "https://cb", "https://evil"},
    ci \in {NoneVal, "c1", "c2"},
    cs \in {NoneVal, "s1", "s2"},
    v \in {NoneVal, "v1", "abc"} }

OrderAuthReqs ==
  { AuthReq(c, "https://cb", "code", NoneVal, NoneVal, p) :
    c \in {"c1", "c2"}, p \in {<<NoneVal, NoneVal>>, <<S256("v1"), "S256">>} }

\* The deployments of the order check: the client c1, the client c2, OAuth off.
OrderConfigs ==
  { Settings(TRUE, "c1", "s1", FALSE, NoneVal, NoneVal),
    Settings(TRUE, "c2", "s2", FALSE, NoneVal, NoneVal),
    Settings(FALSE, "c1", "s1", FALSE, NoneVal, NoneVal) }

\* /token over every form, the store holding codes fresh and expired, bound
\* to the configured client or (after a restart under other settings) not.
NextOrder ==
  \/ \E q \in OrderAuthReqs : HandleAuthorize(q, 0)
  \/ TokenRecv(1)
  \/ pending[1] /\ \E f \in OrderTokenForms : HandleToken(1, f, 0)
  \/ Tick(CodeTTL + 1)
  \/ Crash
  \/ \E cfg \in OrderConfigs : Restart(cfg)

SpecOrder == Init /\ [][NextOrder]_vars

\* Issuance under concurrency: /authorize requests that differ in scope and
\* state arrive while /token handlers are suspended, and the suspended
\* handlers resume in any order.
IssueAuthReqs ==
  { AuthReq("c1", "https://cb", "code", st, sc, <<NoneVal, NoneVal>>) :
    st \in {NoneVal, "xyz", ""}, sc \in {NoneVal, "read"} }
  \cup
  { AuthReq("c1", "https://cb", "code", NoneVal, NoneVal, p) :
    p \in {<<"abc", NoneVal>>, <<"abc", "S256">>, <<"", NoneVal>>} }

NextIssue ==
  \/ \E q \in IssueAuthReqs : HandleAuthorize(q, 0)
  \/ \E i \in Conns : TokenRecv(i)
  \/ \E i \in Conns, f \in BasicTokenForms : HandleToken(i, f, 0)

SpecIssue == Init /\ [][NextIssue]_vars

\* Deployments with OAuth enabled and the client not fully configured: the
\* client id, the client secret or both are unset (None) or set empty.
UnsetClientConfigs ==
  { Settings(TRUE, cid, cs, FALSE, NoneVal, NoneVal) :
    cid \in {NoneVal, "", "c1"}, cs \in {NoneVal, "", "s1"} }
  \ { Settings(TRUE, "c1", "s1", FALSE, NoneVal, NoneVal) }

\* /authorize requests with the client id absent, empty, and two values.
UnsetAuthReqs ==
  { AuthReq(c, "https://cb", "code", NoneVal, NoneVal, <<NoneVal, NoneVal>>) :
    c \in {NoneVal, "", "c1", "c2"} }

\* /token forms with client id and secret absent, empty, and set.
UnsetTokenForms ==
  { TokenForm("authorization_code", c, NoneVal, ci, cs, NoneVal) :
    c \in KnownCodes, ci \in {NoneVal, "", "c1"}, cs \in {NoneVal, "", "s1"} }

\* The flow under a fully configured client, then the process restarted with
\* the client id or secret unset while the file holds codes and tokens.
NextUnset ==
  \/ \E q \in UnsetAuthReqs : HandleAuthorize(q, 0)
  \/ TokenRecv(1)
  \/ pending[1] /\ \E f \in UnsetTokenForms : HandleToken(1, f, 0)
  \/ Crash
  \/ \E cfg \in UnsetClientConfigs : Restart(cfg)

SpecUnset == Init /\ [][NextUnset]_vars

\* Stores of every shape (codes with and without PKCE fields, with and
\* without explicit scope, tokens), written by the handlers, lost with the
\* process and loaded again.
NextRoundTrip ==
  \/ \E q \in GoodAuthReqs : HandleAuthorize(q, 0)
  \/ TokenRecv(1)
  \/ \E f \in BasicTokenForms : HandleToken(1, f, 0)
  \/ Tick(1)
  \/ Crash
  \/ \E cfg \in Configs : Restart(cfg)

SpecRoundTrip == Init /\ [][NextRoundTrip]_vars

\* The flow with /token handlers overlapping: a handler suspended at its await
\* resumes after any number of other handlers have run.
NextRace ==
  \/ \E q \in BasicAuthReqs : HandleAuthorize(q, 0)
  \/ \E i \in Conns : TokenRecv(i)
  \/ \E i \in Conns, f \in TokenForms : HandleToken(i, f, 0)
  \/ \E d \in CodeClockSteps : Tick(d)

SpecRace == Init /\ [][NextRace]_vars

\* The flow with the process stopping and starting again, at any point
\* between two handlers and inside a successful handle_token.
NextCrash ==
  \/ \E q \in BasicAuthReqs : HandleAuthorize(q, 0)
  \/ \E i \in Conns : TokenRecv(i)
  \/ \E i \in Conns, f \in BasicTokenForms : HandleToken(i, f, 0)
  \/ \E i \in Conns, f \in BasicTokenForms : HandleTokenCrash(i, f)
  \/ \E t \in Creds \ {NoneVal} : VerifyAccessToken(t)
  \/ \E d \in CodeClockSteps : Tick(d)
  \/ Crash
  \/ \E cfg \in Configs : Restart(cfg)

SpecCrash == Init /\ [][NextCrash]_vars

\* The gateway and the token verifier, over tokens issued by the flow, the
\* clock passing the tokens' expiry, the process restarted under any settings.
NextGateway ==
  \/ \E q \in BasicAuthReqs : HandleAuthorize(q, 0)
  \/ TokenRecv(1)
  \/ \E f \in BasicTokenForms : HandleToken(1, f, 0)
  \/ \E t \in Creds \ {NoneVal} : VerifyAccessToken(t)
  \/ \E t \in Creds : VerifyOauthToken(t)
  \/ \E c \in Creds : VerifyAuthentication(c)
  \/ \E c \in Creds, m \in McpMethods : McpEndpoint(c, m)
  \/ \E d \in TokenClockSteps : Tick(d)
  \/ Crash
  \/ \E cfg \in Configs : Restart(cfg)

SpecGateway == Init /\ [][NextGateway]_vars

\* The store and its file: every operation that changes the store, writes
\* that fail, the process stopping between handlers and inside a write, and
\* starting again.
NextDurable ==
  \/ \E q \in BasicAuthReqs : HandleAuthorize(q, 0)
  \/ \E q \in BasicAuthReqs, file \in TornFiles : HandleAuthorizeCrash(q, file)
  \/ TokenRecv(1)
  \/ \E f \in BasicTokenForms : HandleToken(1, f, 0)
  \/ \E f \in BasicTokenForms : HandleTokenCrash(1, f)
  \/ \E t \in Creds \ {NoneVal} : VerifyAccessToken(t)
  \/ \E d \in TokenClockSteps : Tick(d)
  \/ \E e \in WriteErrors : DiskFails(e)
  \/ DiskRecovers
  \/ Crash
  \/ \E cfg \in Configs : Restart(cfg)

SpecDurable == Init /\ [][NextDurable]_vars

\* The files a start of the process can find: none, files that do not load as
\* a JSON object, snapshots an earlier run has written, and snapshots in which
\* a timestamp is a string that is no ISO-8601 text.
BadTimeText == [str |-> "not-a-date"]

FileCode(p) ==
  SaveCode(AuthCodeData(AuthReq("c1", "https://cb", "code", NoneVal, NoneVal, p), 0, 0))

FileToken(t) == TokenData(t, "c1", "mcp", 0, 0)

GoodFiles ==
  { Snapshot(EmptyMap, EmptyMap),
    [exists |-> TRUE, tokens |-> EmptyMap,
     codes |-> [c \in {"a1"} |-> FileCode(<<NoneVal, NoneVal>>)]],
    [exists |-> TRUE, tokens |-> [t \in {"t1"} |-> FileToken(t)],
     codes |-> EmptyMap],
    [exists |-> TRUE, tokens |-> [t \in {"t1", "t2"} |-> FileToken(t)],
     codes |-> [c \in {"a1", "a2"} |->
                 IF c = "a1" THEN FileCode(<<NoneVal, NoneVal>>)
                 ELSE FileCode(<<S256("v1"), "S256">>)]] }

BadTimeFiles ==
  { [exists |-> TRUE, tokens |-> EmptyMap,
     codes |-> [c \in {"a1"} |->
                 [FileCode(<<NoneVal, NoneVal>>) EXCEPT !.expires_at = BadTimeText]]],
    [exists |-> TRUE, tokens |-> [t \in {"t1"} |-> FileToken(t)],
     codes |-> [c \in {"a1", "a2"} |->
                 IF c = "a1" THEN FileCode(<<NoneVal, NoneVal>>)
                 ELSE [FileCode(<<NoneVal, NoneVal>>) EXCEPT !.created_at = BadTimeText]]],
    [exists |-> TRUE,
     tokens |-> [t \in {"t1"} |-> [FileToken(t) EXCEPT !.expires_at = BadTimeText]],
     codes |-> EmptyMap],
    [exists |-> TRUE,
     tokens |-> [t \in {"t1", "t2"} |->
                  IF t = "t1" THEN FileToken(t)
                  ELSE [FileToken(t) EXCEPT !.created_at = BadTimeText]],
     codes |-> [c \in {"a1"} |-> FileCode(<<NoneVal, NoneVal>>)]] }

TextFiles ==
  { TextFile("unreadable"), TextFile(""), TextFile("{ \"tokens\": {"),
    TextFile("[]") }

Files == {NoFile} \cup TextFiles \cup GoodFiles \cup BadTimeFiles

\* The process is about to start over one of the files.
InitLoad ==
  /\ settings \in Configs
  /\ up = FALSE
  /\ now = 0
  /\ disk \in Files
  /\ fs = "ok"
  /\ codes = EmptyMap
  /\ tokens = EmptyMap
  /\ pending = [c \in Conns |-> FALSE]
  /\ rival = [c \in Conns |-> {}]
  /\ nCodes = 0
  /\ nTokens = 0
  /\ ticks = 0
  /\ crashes = 0
  /\ minted = EmptyMap
  /\ last = [op |-> "stopped", key |-> NoneVal, status |-> 0, detail |-> "",
             out |-> NoneVal]

\* _load_storage at the start of the process, over every file.
NextLoad ==
  \/ \E cfg \in Configs : Restart(cfg)
  \/ Crash

SpecLoad == InitLoad /\ [][NextLoad]_vars

\* ------------------------------------------------------------ properties
\* The details of the failures of checks 1-4 of handle_token.
EarlyTokenFailures ==
  {"OAuth2 is not enabled", "grant_type must be 'authorization_code'",
   "code is required", "client_id and client_secret are required",
   "Invalid client credentials"}

\* The values generate_access_token has returned so far.
IssuedTokens == {generate_access_token(n) : n \in 1..nTokens}

\* The codes and tokens of the file.
DiskCodes == IF JsonObject(disk) THEN DOMAIN disk.codes ELSE {}
DiskTokens == IF JsonObject(disk) THEN DOMAIN disk.tokens ELSE {}

\* A step of handle_token from its form on.
TokenStep == last'.op = "token"

\* C1. Single use: a successful exchange leaves its code absent from the store
\* and from the file, and a later exchange that presents a code already
\* exchanged and passes checks 1-4 fails with InvalidGrant and issues no token.
C1_SingleUse ==
  [][TokenStep =>
       /\ last'.status = 200 =>
            /\ last'.key \in DOMAIN codes
            /\ last'.key \notin DOMAIN codes'
            /\ last'.key \notin DiskCodes'
            /\ last'.out.access_token \in DOMAIN tokens' \ DOMAIN tokens
       /\ (/\ last'.key \in DOMAIN minted
           /\ minted[last'.key] # {}
           /\ last'.detail \notin EarlyTokenFailures) =>
            /\ last'.status = 400
            /\ Kind(last'.detail) = "InvalidGrant"
            /\ tokens' = tokens
            /\ nTokens' = nTokens]_vars

\* A replay of an exchanged code has been rejected.
C1_Witness ==
  /\ last.op = "token"
  /\ last.key \in DOMAIN minted
  /\ minted[last.key] # {}
  /\ Kind(last.detail) = "InvalidGrant"

\* C2. Concurrent exchange: of the handlers that present the same code and
\* overlap, one returns a token and the others fail with InvalidGrant; the
\* winner adds exactly one token and removes the code, the losers change
\* nothing, and no code ever yields two tokens.
C2_ConcurrentExchange ==
  [][TokenStep =>
       /\ last'.status = 200 =>
            /\ ~last'.raced
            /\ DOMAIN tokens' = DOMAIN tokens \cup {last'.out.access_token}
            /\ Cardinality(DOMAIN tokens') = Cardinality(DOMAIN tokens) + 1
            /\ DOMAIN codes' = DOMAIN codes \ {last'.key}
            /\ Cardinality(DOMAIN codes') = Cardinality(DOMAIN codes) - 1
       /\ (last'.raced /\ last'.detail \notin EarlyTokenFailures) =>
            /\ last'.status = 400
            /\ Kind(last'.detail) = "InvalidGrant"
            /\ tokens' = tokens
            /\ codes' = codes
            /\ disk' = disk
       /\ \A c \in DOMAIN minted' : Cardinality(minted'[c]) <= 1]_vars

\* A handler that was suspended while another one exchanged the code it
\* presents has resumed and observed InvalidGrant.
C2_Witness ==
  /\ last.op = "token"
  /\ last.raced
  /\ Kind(last.detail) = "InvalidGrant"
  /\ Cardinality(minted[last.key]) = 1

\* C3. Expired code: an exchange that passes checks 1-4 and presents a stored
\* code past its expires_at fails with InvalidGrant, issues no token and removes
\* the code from the store and from the file; the same exchange made again
\* fails with InvalidGrant too.
C3_ExpiredCode ==
  [][(TokenStep /\ last'.detail \notin EarlyTokenFailures) =>
       /\ (last'.key \in DOMAIN codes /\ now > codes[last'.key].expires_at) =>
            /\ last'.status = 400
            /\ Kind(last'.detail) = "InvalidGrant"
            /\ tokens' = tokens
            /\ nTokens' = nTokens
            /\ codes' = [c \in DOMAIN codes \ {last'.key} |-> codes[c]]
            /\ DiskCodes' = DOMAIN codes'
            /\ DiskTokens' = DOMAIN tokens
       /\ (/\ last'.key \in DOMAIN minted
           /\ minted[last'.key] = {}
           /\ last'.key \notin DOMAIN codes) =>
            /\ last'.status = 400
            /\ Kind(last'.detail) = "InvalidGrant"
            /\ UNCHANGED <<codes, tokens, disk>>]_vars

\* A code removed on expiry has been presented again and refused as before.
C3_Witness ==
  /\ last.op = "token"
  /\ last.key \in DOMAIN minted
  /\ minted[last.key] = {}
  /\ last.key \notin DOMAIN codes
  /\ last.detail = "Invalid or expired authorization code"

\* C4. Single use across restarts: no authorization code yields two access
\* tokens, whatever crashes and restarts fall between the operations.
C4_NoCodeYieldsTwoTokens ==
  \A c \in DOMAIN minted : Cardinality(minted[c]) <= 1

\* A step of the gateway, of verify_access_token and of verify_oauth_token.
GatewayStep == last'.op = "authenticate"
VerifyStep == last'.op = "verify"
OauthTokenStep == last'.op = "oauth_token"

\* token is a key of the token store and now is not past its expires_at.
StoredUnexpired(token) ==
  /\ token \in DOMAIN tokens
  /\ ~(now > tokens[token].expires_at.iso)

\* The modes of the gateway, by the settings.
OauthMode == settings.oauth_enabled
StaticBearerMode == ~settings.oauth_enabled /\ settings.bearer_token_enabled
SharedSecretMode ==
  /\ ~settings.oauth_enabled
  /\ ~settings.bearer_token_enabled
  /\ settings.mcp_token \notin {NoneVal, ""}
NoAuthMode ==
  /\ ~settings.oauth_enabled
  /\ ~settings.bearer_token_enabled
  /\ settings.mcp_token \in {NoneVal, ""}

\* C5. Gateway priority and exclusivity: the highest-priority enabled mode
\* alone decides.  In OAuth mode a credential is accepted exactly when it is
\* an unexpired token of the store, so the static bearer value and the shared
\* secret are rejected; in static-bearer mode exactly the static bearer value
\* is accepted, so the shared secret is rejected; in shared-secret mode
\* exactly the shared secret; with nothing configured every request.
C5_GatewayPriority ==
  [][GatewayStep =>
       LET c == last'.key
           ok == last'.status = 200
       IN /\ last'.status \in {200, 401}
          /\ OauthMode => (ok <=> (c # NoneVal /\ StoredUnexpired(c)))
          /\ (OauthMode /\ c \in {settings.bearer_token, settings.mcp_token}
              /\ ~(c # NoneVal /\ StoredUnexpired(c))) => last'.status = 401
          /\ StaticBearerMode => (ok <=> (c # NoneVal /\ c = settings.bearer_token))
          /\ (StaticBearerMode /\ c = settings.mcp_token
              /\ c # settings.bearer_token) => last'.status = 401
          /\ SharedSecretMode => (ok <=> c = settings.mcp_token)
          /\ NoAuthMode => ok]_vars

\* With OAuth enabled the gateway has rejected the configured static bearer
\* value.
C5_Witness ==
  /\ settings.oauth_enabled
  /\ settings.bearer_token_enabled
  /\ last.op = "authenticate"
  /\ last.key = settings.bearer_token
  /\ last.status = 401

\* C6. Every /mcp call passes the gateway before any business logic runs: no
\* list_tools or call_tool is executed for a request whose credential the
\* gateway does not authorize.
C6_NoToolWithoutAuthorization ==
  (last.op = "mcp" /\ last.out.executed) =>
    AuthenticationResult(last.key).status = 200

\* C7. Verify returns the stored record exactly when the token is a key of
\* the store and now is not past expires_at (at expires_at itself it still
\* returns it); in OAuth mode the gateway authorizes exactly then, rejects a
\* missing credential with MissingCredential and any other one with
\* InvalidOrExpiredToken.
C7_TokenValidity ==
  [][/\ VerifyStep =>
          /\ last'.status = 200 <=> StoredUnexpired(last'.key)
          /\ last'.status = 200 => last'.out = tokens[last'.key]
          /\ last'.status # 200 => last'.out = NoneVal
     /\ (GatewayStep /\ settings.oauth_enabled) =>
          /\ last'.key = NoneVal =>
               last'.status = 401 /\ Kind(last'.detail) = "MissingCredential"
          /\ last'.key # NoneVal =>
               /\ last'.status = 200 <=> StoredUnexpired(last'.key)
               /\ last'.status # 200 =>
                    /\ last'.status = 401
                    /\ Kind(last'.detail) = "InvalidOrExpiredToken"]_vars

\* Verify has returned the record of a token at its expires_at itself.
C7_Witness ==
  /\ last.op = "verify"
  /\ last.status = 200
  /\ now = last.out.expires_at.iso

\* C8. Expired-token eviction: Verify of a stored token past its expires_at
\* returns absent and removes that token, and no other entry, from the store
\* and from the file; a token absent from the file never comes back, and
\* Verify of a token absent from the store returns absent.
C8_ExpiredTokenEviction ==
  [][/\ (VerifyStep /\ last'.key \in DOMAIN tokens
         /\ tokens[last'.key].expires_at.iso < now) =>
          /\ last'.status = 0
          /\ last'.out = NoneVal
          /\ tokens' = [t \in DOMAIN tokens \ {last'.key} |-> tokens[t]]
          /\ codes' = codes
          /\ disk'.exists
          /\ disk'.tokens = tokens'
          /\ DiskCodes' = DOMAIN codes
     /\ (VerifyStep /\ last'.key \notin DOMAIN tokens) =>
          last'.status = 0 /\ tokens' = tokens /\ disk' = disk
     /\ \A t \in IssuedTokens :
          t \notin DiskTokens => (t \notin DiskTokens' /\ t \notin DOMAIN tokens')]_vars

\* An expired token has been evicted while another token stays in the store.
C8_Witness ==
  /\ last.op = "verify"
  /\ last.status = 0
  /\ last.key \in IssuedTokens
  /\ last.key \notin DOMAIN tokens
  /\ last.key \notin DiskTokens
  /\ DOMAIN tokens # {}

\* C9, as stated. Verify returns absent whenever the OAuth feature is disabled.
C9_AbsentWhenDisabled ==
  (last.op = "verify" /\ ~settings.oauth_enabled) => last.status # 200

\* C9, amended. verify_access_token does not read the feature flag: with the
\* feature disabled it still returns the record of a stored unexpired token
\* and absent for any other token.  The flag is read by verify_oauth_token,
\* which with the feature disabled accepts every token without reading or
\* changing the store.
C9_VerifyIgnoresFlag ==
  [][/\ (VerifyStep /\ ~settings.oauth_enabled) =>
          /\ last'.status = 200 <=> StoredUnexpired(last'.key)
          /\ last'.status = 200 => last'.out = tokens[last'.key]
     /\ (OauthTokenStep /\ ~settings.oauth_enabled) =>
          /\ last'.status = 200
          /\ tokens' = tokens
          /\ disk' = disk]_vars

\* With the feature disabled Verify has returned the record of a token.
C9_Witness ==
  /\ ~settings.oauth_enabled
  /\ last.op = "verify"
  /\ last.status = 200
  /\ last.out.access_token = last.key

\* C10. With no authentication configured the gateway authorizes every
\* request, with or without a credential, and leaves the store and the file
\* as they are.
C10_NoAuthConfigured ==
  [][(GatewayStep /\ NoAuthMode) =>
       /\ last'.status = 200
       /\ tokens' = tokens
       /\ codes' = codes
       /\ disk' = disk]_vars

\* With nothing configured a request with no credential has been authorized
\* while the store holds a token.
C10_Witness ==
  /\ NoAuthMode
  /\ last.op = "authenticate"
  /\ last.key = NoneVal
  /\ last.status = 200
  /\ DOMAIN tokens # {}

\* The request passes checks 1-8 of the exchange: the feature is enabled, the
\* grant type is authorization_code, code, client_id and client_secret are
\* present, the credentials are those of the configured client, the code is
\* in the store and not expired, the redirect_uri (when supplied) and the
\* client_id are the ones bound to the code.
Checks1to8Pass(f) ==
  /\ settings.oauth_enabled
  /\ f.grant_type = "authorization_code"
  /\ f.code \notin {NoneVal, ""}
  /\ f.client_id \notin {NoneVal, ""}
  /\ f.client_secret \notin {NoneVal, ""}
  /\ settings.oauth_client_id \notin {NoneVal, ""}
  /\ settings.oauth_client_secret \notin {NoneVal, ""}
  /\ f.client_id = settings.oauth_client_id
  /\ f.client_secret = settings.oauth_client_secret
  /\ f.code \in DOMAIN codes
  /\ ~(now > codes[f.code].expires_at)
  /\ f.redirect_uri \in {NoneVal, "", codes[f.code].redirect_uri}
  /\ f.client_id = codes[f.code].client_id

\* The code the request presents is bound to a challenge with method m.
BoundToChallenge(f, m) ==
  /\ "code_challenge" \in DOMAIN codes[f.code]
  /\ codes[f.code].code_challenge_method = m

\* C11. PKCE S256: for a code bound to a challenge with method S256, an
\* exchange that passes checks 1-8 with a non-empty verifier succeeds exactly
\* when the unpadded base64url SHA-256 digest of the verifier equals the stored
\* challenge; with any other verifier it fails with PkceVerificationFailed and
\* issues no token.
C11_PkceS256 ==
  [][(/\ TokenStep
      /\ Checks1to8Pass(last'.form)
      /\ BoundToChallenge(last'.form, "S256")
      /\ last'.form.code_verifier \notin {NoneVal, ""}) =>
       LET f == last'.form
           cd == codes[f.code]
       IN /\ last'.status = 200 <=> S256(f.code_verifier) = cd.code_challenge
          /\ last'.status = 200 => last'.out.access_token \in DOMAIN tokens'
          /\ last'.status # 200 =>
               /\ Kind(last'.detail) = "PkceVerificationFailed"
               /\ tokens' = tokens
               /\ nTokens' = nTokens]_vars

\* A code bound to an S256 challenge has been exchanged with the verifier
\* whose digest is the challenge.
C11_Witness ==
  /\ last.op = "token"
  /\ last.status = 200
  /\ "code_challenge" \in DOMAIN last.bound
  /\ last.bound.code_challenge_method = "S256"
  /\ last.bound.code_challenge = S256(last.form.code_verifier)
  /\ last.form.code_verifier # last.bound.code_challenge

\* C12. PKCE plain: for a code bound to a challenge with method plain, given
\* explicitly or by default, an exchange that passes checks 1-8 succeeds
\* exactly when the verifier is the stored challenge, character for character.
C12_PkcePlain ==
  [][(/\ TokenStep
      /\ Checks1to8Pass(last'.form)
      /\ BoundToChallenge(last'.form, "plain")) =>
       LET f == last'.form
           cd == codes[f.code]
       IN /\ last'.status = 200 <=> f.code_verifier = cd.code_challenge
          /\ last'.status # 200 => (tokens' = tokens /\ nTokens' = nTokens)]_vars

\* A code whose challenge came without a method has been exchanged with the
\* challenge itself as verifier.
C12_Witness ==
  /\ last.op = "token"
  /\ last.status = 200
  /\ "code_challenge" \in DOMAIN last.bound
  /\ last.bound.code_challenge_method = "plain"
  /\ last.bound.code_challenge = "abc"
  /\ last.form.code_verifier = "abc"

\* The file holds the store: loading it yields the two dicts of the memory.
Synced == LoadCodes(disk) = codes /\ LoadTokens(disk) = tokens

\* A step of a handler that returns and has changed the store.
MutatingStep ==
  /\ up /\ up'
  /\ last'.op \in {"authorize", "token", "verify"}
  /\ (codes' # codes \/ tokens' # tokens)

\* C13, as stated. At the return of every operation the file holds the
\* in-memory store.
C13_SnapshotEqualsStore == up => Synced

\* C13, amended. Every operation that changes the store calls _save_storage
\* before it returns, and when that write succeeds the file is the snapshot of
\* the store at the return: code issuance, token issuance with the removal of
\* the exchanged code, removal of an expired code, eviction of an expired
\* token.  From then on, as long as writes succeed, the file holds the store
\* at every return, a stop of the process between handlers leaves the file as
\* it is, and the start that follows loads exactly it.  A write that fails is
\* swallowed and leaves the file behind the store.
C13_DurableWhenWritten ==
  [][/\ (MutatingStep /\ fs = "ok") =>
          /\ disk' = Snapshot(codes', tokens')
          /\ Synced'
     /\ (up /\ up' /\ Synced /\ fs = "ok") => Synced'
     /\ (up /\ ~up' /\ last'.detail = "between handlers") =>
          /\ disk' = disk
          /\ Synced => (LoadCodes(disk') = codes /\ LoadTokens(disk') = tokens)
     /\ (~up /\ up') => (codes' = LoadCodes(disk) /\ tokens' = LoadTokens(disk))
    ]_vars

\* After a stop and a start the store has what the calls before the stop left:
\* an issued token, an issued code, and not the code that was exchanged.
C13_Witness ==
  /\ up
  /\ last.op = "start"
  /\ crashes = 1
  /\ settings.oauth_enabled
  /\ \E t \in DOMAIN tokens : ~(now > tokens[t].expires_at.iso)
  /\ \E c \in DOMAIN codes : minted[c] = {}
  /\ \E c \in DOMAIN minted : minted[c] # {} /\ c \notin DOMAIN codes
  /\ disk = Snapshot(codes, tokens)

\* C14. A crash inside a snapshot write leaves the complete previous snapshot
\* or the complete new one: every code and token that a load of the file
\* yielded before the process died is yielded by a load after it.
C14_TornWriteKeepsPrevious ==
  [][(up /\ ~up') =>
       /\ DOMAIN LoadCodes(disk) \subseteq DOMAIN LoadCodes(disk')
       /\ DOMAIN LoadTokens(disk) \subseteq DOMAIN LoadTokens(disk')]_vars

\* The file has an entry, code or token, with a timestamp that is no ISO text.
MalformedTimestamps(d) ==
  \/ \E c \in DOMAIN d.codes :
       ~IsIsoText(d.codes[c].created_at) \/ ~IsIsoText(d.codes[c].expires_at)
  \/ \E t \in DOMAIN d.tokens :
       ~IsIsoText(d.tokens[t].created_at) \/ ~IsIsoText(d.tokens[t].expires_at)

\* C15. Load ends normally with both maps empty when the file is missing,
\* unreadable, not a JSON object or has an entry with a malformed timestamp,
\* and with exactly the maps of the file otherwise.
C15_LoadAllOrNothing ==
  (up /\ last.op = "start") =>
    IF ~disk.exists \/ "text" \in DOMAIN disk \/ MalformedTimestamps(disk)
    THEN codes = EmptyMap /\ tokens = EmptyMap
    ELSE /\ tokens = disk.tokens
         /\ DOMAIN codes = DOMAIN disk.codes
         /\ \A c \in DOMAIN codes :
              /\ codes[c].created_at = disk.codes[c].created_at.iso
              /\ codes[c].expires_at = disk.codes[c].expires_at.iso
              /\ codes[c].client_id = disk.codes[c].client_id

\* C16. TTL exactness: every token of the store expires exactly 24 hours after
\* its created_at and every code of the store exactly 10 minutes after its
\* created_at.
C16_TtlExact ==
  /\ \A t \in DOMAIN tokens :
       tokens[t].expires_at.iso = tokens[t].created_at.iso + TokenTTL
  /\ \A c \in DOMAIN codes :
       codes[c].expires_at = codes[c].created_at + CodeTTL

\* The check of the exchange that a response reports, by its detail; 10 for a
\* token.
CheckOf(detail) ==
  CASE detail = "OAuth2 is not enabled" -> 1
    [] detail = "grant_type must be 'authorization_code'" -> 2
    [] detail \in {"code is required",
                   "client_id and client_secret are required"} -> 3
    [] detail = "Invalid client credentials" -> 4
    [] detail = "Invalid or expired authorization code" -> 5
    [] detail = "Authorization code expired" -> 6
    [] detail = "redirect_uri mismatch" -> 7
    [] detail = "client_id mismatch" -> 8
    [] detail \in {"code_verifier is required for PKCE",
                   "Invalid code_verifier (PKCE verification failed)",
                   "Unsupported code_challenge_method: S512"} -> 9
    [] detail = "ok" -> 10
    [] OTHER -> 0

\* Whether the request f fails check n of the exchange, each check taken on
\* its own; a check on the stored code is not failed by a code that is not
\* in the store.
FailsCheck(n, f) ==
  LET known == f.code \in DOMAIN codes
      cd == codes[f.code]
  IN CASE n = 1 -> ~settings.oauth_enabled
       [] n = 2 -> f.grant_type # "authorization_code"
       [] n = 3 -> \E x \in {f.code, f.client_id, f.client_secret} :
                     x \in {NoneVal, ""}
       [] n = 4 -> ~(/\ settings.oauth_enabled
                     /\ settings.oauth_client_id \notin {NoneVal, ""}
                     /\ settings.oauth_client_secret \notin {NoneVal, ""}
                     /\ f.client_id = settings.oauth_client_id
                     /\ f.client_secret = settings.oauth_client_secret)
       [] n = 5 -> ~known
       [] n = 6 -> known /\ now > cd.expires_at
       [] n = 7 -> /\ known
                   /\ f.redirect_uri \notin {NoneVal, ""}
                   /\ f.redirect_uri # cd.redirect_uri
       [] n = 8 -> known /\ f.client_id # cd.client_id
       [] n = 9 -> /\ known
                   /\ "code_challenge" \in DOMAIN cd
                   /\ \/ f.code_verifier \in {NoneVal, ""}
                      \/ cd.code_challenge_method \notin {"plain", "S256"}
                      \/ /\ cd.code_challenge_method = "plain"
                         /\ f.code_verifier # cd.code_challenge
                      \/ /\ cd.code_challenge_method = "S256"
                         /\ S256(f.code_verifier) # cd.code_challenge

\* The first check that f fails, 10 when it fails none.
FirstFailingCheck(f) ==
  LET failing == {n \in 1..9 : FailsCheck(n, f)} \cup {10}
  IN CHOOSE n \in failing : \A m \in failing : n <= m

\* The error kind and status of each check.
KindOfCheck(n) ==
  CASE n = 1 -> "ConfigurationError"
    [] n = 4 -> "InvalidClient"
    [] n \in {5, 6} -> "InvalidGrant"
    [] n = 7 -> "RedirectMismatch"
    [] n = 8 -> "ClientMismatch"
    [] OTHER -> "any"

\* C17. Exchange validation order: the outcome of an exchange is the error of
\* the first check it fails, in the order feature, grant type, required
\* fields, client credentials, code in store, code not expired, redirect_uri,
\* client_id, PKCE; it is a token when no check fails.  So wrong credentials
\* give InvalidClient for an unknown or expired code too, and an expired code
\* gives InvalidGrant whatever the redirect_uri and the verifier.
C17_ExchangeOrder ==
  [][TokenStep =>
       LET f == last'.form
           n == FirstFailingCheck(f)
       IN /\ CheckOf(last'.detail) = n
          /\ KindOfCheck(n) # "any" => Kind(last'.detail) = KindOfCheck(n)
          /\ last'.status = (IF n = 10 THEN 200 ELSE IF n = 4 THEN 401 ELSE 400)
          /\ (FailsCheck(4, f) /\ n >= 4) => Kind(last'.detail) = "InvalidClient"
          /\ (FailsCheck(6, f) /\ n >= 6) => Kind(last'.detail) = "InvalidGrant"]_vars

\* An exchange that presents an expired code together with a wrong
\* redirect_uri and a wrong verifier has been answered with the expiry.
C17_Witness ==
  /\ last.op = "token"
  /\ last.detail = "Authorization code expired"
  /\ last.form.redirect_uri # last.bound.redirect_uri
  /\ last.form.redirect_uri # NoneVal
  /\ "code_challenge" \in DOMAIN last.bound
  /\ S256(last.form.code_verifier) # last.bound.code_challenge

\* A step of handle_authorize.
AuthorizeStep == last'.op = "authorize"

\* Whether the request q fails check n of BeginAuthorization.
FailsAuthorizeCheck(n, q) ==
  CASE n = 1 -> ~settings.oauth_enabled
    [] n = 2 -> \/ q.client_id \in {NoneVal, ""}
                \/ q.redirect_uri \in {NoneVal, ""}
                \/ q.response_type # "code"
    [] n = 3 -> q.client_id # settings.oauth_client_id

\* The first check that q fails, 4 when it fails none.
FirstFailingAuthorizeCheck(q) ==
  LET failing == {n \in 1..3 : FailsAuthorizeCheck(n, q)} \cup {4}
  IN CHOOSE n \in failing : \A m \in failing : n <= m

\* C18. BeginAuthorization validation order: the outcome is the error of the
\* first failing check in the order feature enabled (ConfigurationError),
\* client_id, redirect_uri and response_type (MissingParameter), client_id
\* the configured one (UnauthorizedClient); a code is minted exactly when all
\* three pass.
C18_AuthorizeOrder ==
  [][AuthorizeStep =>
       LET n == FirstFailingAuthorizeCheck(last'.req)
       IN /\ n = 1 => (Kind(last'.detail) = "ConfigurationError" /\ last'.status = 400)
          /\ n = 2 => (Kind(last'.detail) = "MissingParameter" /\ last'.status = 400)
          /\ n = 3 => (Kind(last'.detail) = "UnauthorizedClient" /\ last'.status = 401)
          /\ n = 4 <=> last'.status = 302
          /\ n = 4 <=> nCodes' = nCodes + 1
          /\ n = 4 <=> DOMAIN codes' # DOMAIN codes
          /\ n # 4 => codes' = codes]_vars

\* A request of an unknown client that also lacks its redirect_uri has been
\* answered with the missing parameter.
C18_Witness ==
  /\ last.op = "authorize"
  /\ settings.oauth_enabled
  /\ last.req.client_id = "c2"
  /\ last.req.redirect_uri = NoneVal
  /\ Kind(last.detail) = "MissingParameter"

\* The rejections of the exchange that leave the presented code in place
\* although the code is in the store: wrong redirect_uri, missing verifier,
\* failed PKCE verification.
BindingRejections ==
  {"redirect_uri mismatch", "code_verifier is required for PKCE",
   "Invalid code_verifier (PKCE verification failed)"}

\* C19. Rejections do not mutate the store: a rejected BeginAuthorization, and
\* a rejected exchange other than the one that detects an expired code, leaves
\* the code map, the token map and the file as they were; after a rejection
\* for redirect_uri, missing verifier or failed PKCE the presented code is
\* still in the store with its record, unexpired.
C19_RejectionsKeepStore ==
  [][/\ (AuthorizeStep /\ last'.status # 302) =>
          UNCHANGED <<codes, tokens, disk, nCodes>>
     /\ (TokenStep /\ last'.status # 200
         /\ ~(last'.form.code \in DOMAIN codes
              /\ now > codes[last'.form.code].expires_at
              /\ last'.detail \notin EarlyTokenFailures)) =>
          UNCHANGED <<codes, tokens, disk, nTokens>>
     /\ (TokenStep /\ last'.detail \in BindingRejections) =>
          /\ last'.key \in DOMAIN codes'
          /\ codes'[last'.key] = codes[last'.key]
          /\ ~(now' > codes'[last'.key].expires_at)
          /\ last'.key \in DiskCodes']_vars

\* After a failed PKCE verification the code is in the store and the
\* exchange with the right verifier passes every check.
C19_Witness ==
  /\ last.op = "token"
  /\ last.detail = "Invalid code_verifier (PKCE verification failed)"
  /\ last.key \in DOMAIN codes
  /\ codes[last.key].code_challenge = S256("v1")
  /\ TokenCheck([last.form EXCEPT !.code_verifier = "v1"]).detail = "ok"

\* C20. Successful exchange result: the returned record has token_type
\* "Bearer", expires_in 86400, the scope and the client_id bound to the code
\* at issuance, and is the value stored under its access_token.
C20_TokenRecord ==
  (last.op = "token" /\ last.status = 200) =>
    /\ last.out.token_type = "Bearer"
    /\ last.out.expires_in = 86400
    /\ last.out.scope = last.bound.scope
    /\ last.out.client_id = last.bound.client_id
    /\ last.out.access_token \in DOMAIN tokens
    /\ tokens[last.out.access_token] = last.out

\* C21. Concurrent issuance does not lose entries: whatever the order in
\* which overlapping handlers run, a successful /authorize adds its code and
\* a successful /token adds its token and removes its code, every other entry
\* of the store stays as it was, and the file written at the return holds the
\* whole store; so after two issuances both entries are in the store and in
\* the file, each with the fields of its own request.
C21_ConcurrentIssuance ==
  [][/\ (AuthorizeStep /\ last'.status = 302) =>
          /\ DOMAIN codes' = DOMAIN codes \cup {last'.key}
          /\ last'.key \notin DOMAIN codes
          /\ \A c \in DOMAIN codes : codes'[c] = codes[c]
          /\ codes'[last'.key].scope =
               (IF last'.req.scope = NoneVal THEN "mcp" ELSE last'.req.scope)
          /\ tokens' = tokens
          /\ disk' = Snapshot(codes', tokens')
     /\ (TokenStep /\ last'.status = 200) =>
          /\ DOMAIN tokens' = DOMAIN tokens \cup {last'.out.access_token}
          /\ last'.out.access_token \notin DOMAIN tokens
          /\ \A t \in DOMAIN tokens : tokens'[t] = tokens[t]
          /\ tokens'[last'.out.access_token].scope = codes[last'.key].scope
          /\ DOMAIN codes' = DOMAIN codes \ {last'.key}
          /\ \A c \in DOMAIN codes' : codes'[c] = codes[c]
          /\ disk' = Snapshot(codes', tokens')
     /\ up' => (DiskCodes' = DOMAIN codes' /\ DiskTokens' = DOMAIN tokens')]_vars

\* Two /token handlers that overlapped and presented different codes have
\* both returned, and both tokens are in the store and in the file, each with
\* the scope of its own code.
C21_Witness ==
  /\ last.op = "token"
  /\ last.status = 200
  /\ \E i \in Conns : ~pending[i] /\ rival[i] # {} /\ last.key \notin rival[i]
  /\ Cardinality(DOMAIN tokens) = 2
  /\ DiskTokens = DOMAIN tokens
  /\ \E t \in DOMAIN tokens : tokens[t].scope = "read"
  /\ \E t \in DOMAIN tokens : tokens[t].scope = "mcp"

\* C22. BeginAuthorization effect: after a successful call the new code is in
\* the store, bound to the client_id, redirect_uri and scope of the request
\* ("mcp" when the scope was omitted), with the challenge and method exactly
\* when a challenge was supplied (method "plain" when omitted), and the
\* redirect target is {redirect_uri}?code={code} with &state={state} appended
\* exactly when a state was supplied.
C22_AuthorizeEffect ==
  (last.op = "authorize" /\ last.status = 302) =>
    LET q == last.req
        cd == codes[last.key]
    IN /\ last.key \in DOMAIN codes
       /\ cd.client_id = q.client_id
       /\ cd.redirect_uri = q.redirect_uri
       /\ cd.scope = (IF q.scope = NoneVal THEN "mcp" ELSE q.scope)
       /\ "code_challenge" \in DOMAIN cd <=> q.code_challenge # NoneVal
       /\ "code_challenge" \in DOMAIN cd =>
            /\ cd.code_challenge = q.code_challenge
            /\ cd.code_challenge_method =
                 (IF q.code_challenge_method = NoneVal THEN "plain"
                  ELSE q.code_challenge_method)
       /\ last.out =
            q.redirect_uri \o "?code=" \o last.key \o
            (IF q.state = NoneVal THEN "" ELSE "&state=" \o q.state)

\* C23. Unsupported PKCE method: for a code bound to a challenge whose method
\* is neither plain nor S256, an exchange that passes checks 1-8 and supplies
\* a verifier fails with UnsupportedChallengeMethod and leaves the store as it
\* was, the code included; and no exchange ever returns a token for a code
\* bound to such a method.
C23_UnsupportedMethod ==
  [][/\ (/\ TokenStep
         /\ Checks1to8Pass(last'.form)
         /\ "code_challenge" \in DOMAIN codes[last'.form.code]
         /\ codes[last'.form.code].code_challenge_method \notin {"plain", "S256"}
         /\ last'.form.code_verifier \notin {NoneVal, ""}) =>
          /\ last'.status = 400
          /\ Kind(last'.detail) = "UnsupportedChallengeMethod"
          /\ UNCHANGED <<codes, tokens, disk, nTokens>>
          /\ last'.key \in DOMAIN codes'
     /\ (TokenStep /\ last'.status = 200
         /\ "code_challenge" \in DOMAIN last'.bound) =>
          last'.bound.code_challenge_method \in {"plain", "S256"}]_vars

\* A code bound to method S512 has been presented with the challenge itself
\* as verifier, refused as unsupported, and is still in the store.
C23_Witness ==
  /\ last.op = "token"
  /\ Kind(last.detail) = "UnsupportedChallengeMethod"
  /\ last.key \in DOMAIN codes
  /\ codes[last.key].code_challenge_method = "S512"
  /\ last.form.code_verifier = codes[last.key].code_challenge

\* C24. The verifier is required exactly when PKCE was used at authorization:
\* for a stored code that carries a challenge an exchange without a non-empty
\* verifier is rejected and issues no token (as a missing parameter when it
\* passes checks 1-8); for a stored code without a challenge an exchange that
\* passes checks 1-8 succeeds with no verifier and with any verifier.
C24_VerifierIffPkce ==
  [][/\ (/\ TokenStep
         /\ last'.form.code \in DOMAIN codes
         /\ "code_challenge" \in DOMAIN codes[last'.form.code]
         /\ last'.form.code_verifier \in {NoneVal, ""}) =>
          /\ last'.status # 200
          /\ tokens' = tokens
          /\ nTokens' = nTokens
          /\ Checks1to8Pass(last'.form) =>
               /\ last'.detail = "code_verifier is required for PKCE"
               /\ last'.status = 400
     /\ (/\ TokenStep
         /\ Checks1to8Pass(last'.form)
         /\ "code_challenge" \notin DOMAIN codes[last'.form.code]) =>
          /\ last'.status = 200
          /\ last'.out.access_token \in DOMAIN tokens']_vars

\* A code issued without a challenge has been exchanged by a form that
\* carries a verifier.
C24_Witness ==
  /\ last.op = "token"
  /\ last.status = 200
  /\ "code_challenge" \notin DOMAIN last.bound
  /\ last.form.code_verifier = "v1"

\* C25. Persistence round trip: saving the store and loading the file again
\* yields the store: the same code and token keys, created_at and expires_at
\* the same instants, code_challenge and code_challenge_method present exactly
\* where they were, with the same values; and so the store that a restart
\* loads is the store the process had when it stopped.
C25_RoundTrip ==
  [][/\ up =>
          LET file == Snapshot(codes, tokens)
              cs == LoadCodes(file)
              ts == LoadTokens(file)
          IN /\ DOMAIN cs = DOMAIN codes
             /\ DOMAIN ts = DOMAIN tokens
             /\ \A c \in DOMAIN codes :
                  /\ cs[c].created_at = codes[c].created_at
                  /\ cs[c].expires_at = codes[c].expires_at
                  /\ DOMAIN cs[c] = DOMAIN codes[c]
                  /\ cs[c] = codes[c]
             /\ \A t \in DOMAIN tokens : ts[t] = tokens[t]
     /\ (up /\ ~up') => (LoadCodes(disk') = codes /\ LoadTokens(disk') = tokens)
     /\ (~up /\ up') => (codes' = LoadCodes(disk) /\ tokens' = LoadTokens(disk))
    ]_vars

\* A restart has loaded a store that holds a token and a code bound to an
\* S256 challenge, issued at different instants.
C25_Witness ==
  /\ up
  /\ last.op = "start"
  /\ crashes = 1
  /\ DOMAIN tokens # {}
  /\ \E c \in DOMAIN codes :
       /\ "code_challenge" \in DOMAIN codes[c]
       /\ codes[c].code_challenge_method = "S256"
       /\ codes[c].created_at > 0
       /\ codes[c].expires_at = codes[c].created_at + CodeTTL

\* The operations that call verify_access_token.
VerifyingOps == {"verify", "oauth_token", "authenticate"}

\* C26. Entry lifecycle: while the process runs, a code leaves the store only
\* by an exchange that presents it (success, or detection of its expiry) and
\* a token only by a verification that presents it past its expires_at; every
\* entry that stays is unaltered; the gateway in static-bearer, shared-secret
\* and none mode leaves store and file alone.  So a verification of a stored
\* token not past its expires_at succeeds, and no issued token is missing
\* from the store while no token can have expired.
C26_EntryLifecycle ==
  [][/\ (up /\ up') =>
          /\ \A c \in DOMAIN codes \ DOMAIN codes' :
               /\ last'.op = "token"
               /\ last'.key = c
               /\ last'.status = 200 \/ now > codes[c].expires_at
          /\ \A c \in DOMAIN codes \cap DOMAIN codes' : codes'[c] = codes[c]
          /\ \A t \in DOMAIN tokens \ DOMAIN tokens' :
               /\ last'.op \in VerifyingOps
               /\ last'.key = t
               /\ now > tokens[t].expires_at.iso
          /\ \A t \in DOMAIN tokens \cap DOMAIN tokens' : tokens'[t] = tokens[t]
     /\ (GatewayStep /\ ~settings.oauth_enabled) =>
          UNCHANGED <<codes, tokens, disk>>
     /\ (VerifyStep /\ StoredUnexpired(last'.key)) =>
          (last'.status = 200 /\ last'.key \in DOMAIN tokens')
     /\ (up' /\ now' <= TokenTTL) => IssuedTokens \subseteq DOMAIN tokens']_vars

\* A verification has evicted the expired token it was given while another
\* token, expired too but not presented, stays in the store.
C26_Witness ==
  /\ last.op \in VerifyingOps
  /\ last.key \in IssuedTokens
  /\ last.key \notin DOMAIN tokens
  /\ \E t \in DOMAIN tokens : now > tokens[t].expires_at.iso

\* C27. Binding invariant: with fixed settings and no restart every code and
\* every token of the store carries the configured client id, the token an
\* exchange returns has the scope of the code it was exchanged for, and no
\* exchange ends with ClientMismatch.
C27_BindingInvariant ==
  /\ \A c \in DOMAIN codes : codes[c].client_id = settings.oauth_client_id
  /\ \A t \in DOMAIN tokens : tokens[t].client_id = settings.oauth_client_id
  /\ last.op = "token" => last.detail # "client_id mismatch"
  /\ (last.op = "token" /\ last.status = 200) =>
       tokens[last.out.access_token].scope = last.bound.scope

\* A step of a handler that returns, has changed the store, and whose
\* _save_storage raised.
FailedWriteStep == MutatingStep /\ fs # "ok"

\* C28. A failed snapshot write is swallowed: the handler returns what it
\* returns when the write succeeds and the store keeps the change, the file
\* is left behind the store, and a start of the process in that window loads
\* the store without the change: a token just issued is not loaded, and a
\* code just exchanged or just removed as expired is loaded again.
C28_FailedWriteSwallowed ==
  [][FailedWriteStep =>
       /\ last'.op = "authorize" =>
            /\ last'.status = 302
            /\ last'.key \in DOMAIN codes'
            /\ last'.key \notin DOMAIN LoadCodes(disk')
       /\ (last'.op = "token" /\ last'.status = 200) =>
            /\ last'.out.access_token \in DOMAIN tokens'
            /\ last'.out.access_token \notin DOMAIN LoadTokens(disk')
       /\ \A c \in DOMAIN codes \ DOMAIN codes' :
            c \in DOMAIN LoadCodes(disk) => c \in DOMAIN LoadCodes(disk')
       /\ \A t \in DOMAIN tokens \ DOMAIN tokens' :
            t \in DOMAIN LoadTokens(disk) => t \in DOMAIN LoadTokens(disk')
       /\ Synced => ~Synced'
    ]_vars

\* Static-bearer mode with no bearer value configured.
BearerValueUnset == StaticBearerMode /\ settings.bearer_token = NoneVal

\* C29. Static-bearer mode fails closed when its value is unset: with OAuth
\* disabled, bearer_token_enabled set and bearer_token unset, the gateway
\* rejects every request with 401, the one without a credential as missing
\* and every presented credential as invalid, and leaves store and file
\* alone.
C29_StaticFailsClosed ==
  [][(GatewayStep /\ BearerValueUnset) =>
       /\ last'.status = 401
       /\ last'.detail = IF last'.key = NoneVal
                         THEN "Missing authorization header"
                         ELSE "Invalid authentication token"
       /\ UNCHANGED <<codes, tokens, disk>>]_vars

\* After a restart into static-bearer mode with the value unset, the gateway
\* has rejected a token that the OAuth flow issued and the store still holds.
C29_Witness ==
  /\ last.op = "authenticate"
  /\ BearerValueUnset
  /\ last.key \in DOMAIN tokens
  /\ last.status = 401

\* OAuth is enabled and the configured client id, resp. secret, is unset.
ClientIdUnset == settings.oauth_enabled /\ Falsy(settings.oauth_client_id)
ClientSecretUnset == settings.oauth_enabled /\ Falsy(settings.oauth_client_secret)

\* The form f passes the checks before the credential check of handle_token.
ReachesCredentialCheck(f) ==
  /\ settings.oauth_enabled
  /\ f.grant_type = "authorization_code"
  /\ ~Falsy(f.code)
  /\ ~Falsy(f.client_id)
  /\ ~Falsy(f.client_secret)

\* C30. OAuth enabled without a fully configured client fails closed: with
\* the client id or the client secret unset no exchange returns a token or
\* changes the token store, and every exchange that reaches the credential
\* check fails with 401 "Invalid client credentials" and leaves the codes
\* alone; with the client id unset every /authorize request is rejected
\* (400 or 401) and adds no code.
C30_UnsetClientFailsClosed ==
  [][/\ (TokenStep /\ (ClientIdUnset \/ ClientSecretUnset)) =>
          /\ last'.status # 200
          /\ tokens' = tokens
          /\ ReachesCredentialCheck(last'.form) =>
               /\ last'.status = 401
               /\ last'.detail = "Invalid client credentials"
               /\ Kind(last'.detail) = "InvalidClient"
               /\ UNCHANGED <<codes, disk>>
     /\ (AuthorizeStep /\ ClientIdUnset) =>
          /\ last'.status \in {400, 401}
          /\ UNCHANGED <<codes, disk>>]_vars

\* With the client secret unset, an exchange that presents a stored,
\* unexpired code, the configured client id and a secret has been rejected
\* at the credential check.
C30_Witness ==
  /\ last.op = "token"
  /\ ClientSecretUnset
  /\ ~ClientIdUnset
  /\ last.key \in DOMAIN codes
  /\ last.form.client_id = settings.oauth_client_id
  /\ last.form.client_secret = "s1"
  /\ last.status = 401

====
